---- MODULE Spec2Model ----
(***************************************************************************)
(* Sub-command dispatch of cespare/subcmd.                                 *)
(*                                                                         *)
(*   Spec        the recursive dispatcher of src/subcmd.go (Run / run)     *)
(*   LiveSpec    the same, with weak fairness on its steps (termination)   *)
(*   RunnerSpec  the Runner of src/unnamed/part_000 (New / Runner.Run)     *)
(*                                                                         *)
(* Go slices are 0-based and TLA+ sequences 1-based: Go's args[1] is       *)
(* args[2] here, args[1:] is Tail(args), args[2:] is Tail(Tail(args)) and  *)
(* os.Args[:n] is SubSeq(osArgs, 1, n).  A Command's Description is only    *)
(* printed by PrintDefaults and is left out; handlers are taken to return.  *)
(* levels, resolved and matched record the run and steer no action.         *)
(***************************************************************************)
EXTENDS Naturals, Sequences, FiniteSets, TLC

VARIABLES
    osArgs,        \* os.Args: the program name followed by the user's arguments
    rootCmds,      \* the command list the caller hands to Run / New
    policy,        \* the flag.ErrorHandling the caller hands to New
    pc,            \* where the process is: "main", "run", "constructed", or an end
    frame,         \* the active call of run: [cmds, checkingIndex, args]
    runner,        \* the *Runner built by New: [cmds, errorHandling, Usage]
    handlerCalls,  \* every call of a command's Do, in order: [do, args]
    usageCalls,    \* every call of Usage, in order
    exits,         \* every status given to os.Exit (at most one: the process ends)
    panicMsg,      \* the value given to panic ("" while none was raised)
    retErr,        \* the error Runner.Run returned (NoErr before it returns)
    levels,        \* how many calls of run were entered
    resolved,      \* the sibling lists run has gone through, outermost first
    matched        \* the group names run has descended through, in order

vars == <<osArgs, rootCmds, policy, pc, frame, runner, handlerCalls, usageCalls,
          exits, panicMsg, retErr, levels, resolved, matched>>

(***************************************************************************)
(* Bounds of the model.                                                    *)
(***************************************************************************)
\* the number of Command values in a whole command tree, all levels together
MaxCommands == 2
\* the number of arguments after the program name
MaxArgs == 3

(***************************************************************************)
(* Values.                                                                 *)
(***************************************************************************)
\* a nil func value, and the function the caller wrote for the command nm
NilFunc == "nil"
FuncOf(nm) == "do_" \o nm

\* a nil slice and a non-nil slice (which may be empty) are different values
NilSlice == [isNil |-> TRUE, elems |-> <<>>]
Slice(s) == [isNil |-> FALSE, elems |-> s]

ProgName == "prog"
\* the four names the documentation of Run and New reserves
ReservedTokens == {"help", "-h", "-help", "--help"}
\* names that are not reserved: one holds "help" in it, one differs from it
\* only in case
PlainNames == {"helper", "Help"}

NoErr == [id |-> "none", text |-> ""]
NoFrame == [cmds |-> <<>>, checkingIndex |-> 0, args |-> <<>>]
NoRunner == [cmds |-> <<>>, errorHandling |-> 0, Usage |-> [name |-> "", cmds |-> <<>>]]

\* helpWords with a fault: the map lacks its last entry
helpWords_noLong == {"help", "-h", "-help"}

helpWords == {"help", "-h", "-help", "--help"}

\* fmt's %q of a string without characters that need escaping
Quote(s) == "\"" \o s \o "\""

RECURSIVE Join(_, _)
Join(elems, sep) ==
    IF Len(elems) = 0 THEN ""
    ELSE IF Len(elems) = 1 THEN elems[1]
    ELSE elems[1] \o sep \o Join(Tail(elems), sep)

(***************************************************************************)
(* The inputs: command trees of at most n commands named from names, and   *)
(* argument vectors of at most MaxArgs tokens.  One run draws its names    *)
(* and tokens from the plain names and one of the four reserved words.     *)
(***************************************************************************)
RECURSIVE CommandCount(_)
CommandCount(cmds) ==
    IF Len(cmds) = 0 THEN 0
    ELSE 1 + CommandCount(cmds[1].SubCommands.elems) + CommandCount(Tail(cmds))

RECURSIVE CommandLists(_, _)
CommandLists(n, names) ==
    {<<>>} \cup
    UNION { UNION { { <<[Name |-> nm,
                         Do |-> IF hasDo THEN FuncOf(nm) ELSE NilFunc,
                         SubCommands |-> sub]>> \o rest :
                        nm \in names, hasDo \in BOOLEAN,
                        sub \in (IF k = 1 THEN {NilSlice} ELSE {})
                                \cup { Slice(s) : s \in { t \in CommandLists(k - 1, names) :
                                                           CommandCount(t) = k - 1 } } } :
                    rest \in CommandLists(n - k, names) } : k \in 1..n }

ArgLists(tokens) == UNION { [1..n -> tokens] : n \in 0..MaxArgs }

Init ==
    /\ \E w \in ReservedTokens :
          /\ rootCmds \in CommandLists(MaxCommands, PlainNames \cup {w})
          /\ osArgs \in { <<ProgName>> \o a : a \in ArgLists(PlainNames \cup {w}) }
    /\ policy = 0
    /\ pc = "main"
    /\ frame = NoFrame
    /\ runner = NoRunner
    /\ handlerCalls = <<>>
    /\ usageCalls = <<>>
    /\ exits = <<>>
    /\ panicMsg = ""
    /\ retErr = NoErr
    /\ levels = 0
    /\ resolved = <<>>
    /\ matched = <<>>

(***************************************************************************)
(* src/subcmd.go                                                           *)
(***************************************************************************)
EmptyMap == [k \in {} |-> NilFunc]
Put(m, k, v) == [x \in DOMAIN m \cup {k} |-> IF x = k THEN v ELSE m[x]]

\* the checks with a fault: only "help" is refused; only a command with
\* neither Do nor SubCommands is refused
IsReserved_helpOnly(cmd) == cmd.Name = "help"
IsMalformed_neitherOnly(cmd) == cmd.Do = NilFunc /\ cmd.SubCommands.isNil

\* the three checks run makes of one command, in the order it makes them
IsReserved(cmd) == cmd.Name \in helpWords
IsDuplicate(cmd, byName, subCmdByName) == cmd.Name \in DOMAIN byName
IsMalformed(cmd) == (cmd.Do # NilFunc) = (~cmd.SubCommands.isNil)

\* the loop over cmds at the head of run, from index i on: the panic it raises
\* ("" when it raises none) and the two maps it has built when it ends
RECURSIVE rangeCmds(_, _, _, _)
rangeCmds(cmds, i, byName, subCmdByName) ==
    IF i > Len(cmds)
    THEN [panic |-> "", byName |-> byName, subCmdByName |-> subCmdByName]
    ELSE LET cmd == cmds[i] IN
         IF IsReserved(cmd)
         THEN [panic |-> "subcmd: cannot name a command " \o Quote(cmd.Name),
               byName |-> byName, subCmdByName |-> subCmdByName]
         ELSE IF IsDuplicate(cmd, byName, subCmdByName)
         THEN [panic |-> "subcmd: duplicate command " \o Quote(cmd.Name)
                             \o " given to Run",
               byName |-> byName, subCmdByName |-> subCmdByName]
         ELSE IF IsMalformed(cmd)
         THEN [panic |-> "subcmd: need to assign either Do or SubCommands in command "
                             \o Quote(cmd.Name),
               byName |-> byName, subCmdByName |-> subCmdByName]
         ELSE IF cmd.Do # NilFunc
         THEN rangeCmds(cmds, i + 1, Put(byName, cmd.Name, cmd.Do), subCmdByName)
         ELSE rangeCmds(cmds, i + 1, byName,
                        Put(subCmdByName, cmd.Name, cmd.SubCommands.elems))

\* parsedArgs with a fault: the program name alone, whatever the level
parsedArgs_programOnly(checkingIndex) == Join(SubSeq(osArgs, 1, 1), " ")

\* strings.Join(os.Args[:checkingIndex], " ")
parsedArgs(checkingIndex) == Join(SubSeq(osArgs, 1, checkingIndex), " ")

\* Usage(cmds, checkingIndex) followed by os.Exit(status)
usageExit(cmds, checkingIndex, status) ==
    /\ usageCalls' = Append(usageCalls, [cmds |-> cmds,
                                         checkingIndex |-> checkingIndex,
                                         parsedArgs |-> parsedArgs(checkingIndex)])
    /\ exits' = Append(exits, status)
    /\ pc' = "exited"
    /\ UNCHANGED <<frame, handlerCalls, panicMsg, levels, matched>>

panicf(msg) ==
    /\ panicMsg' = msg
    /\ pc' = "panicked"
    /\ UNCHANGED <<frame, handlerCalls, usageCalls, exits, levels, matched>>

\* descend with a fault: the next level is given args, not args[1:]
descend_keepsArgs(subCmds, checkingIndex, args) ==
    /\ frame' = [cmds |-> subCmds, checkingIndex |-> checkingIndex + 1,
                 args |-> args]
    /\ levels' = levels + 1
    /\ matched' = Append(matched, args[2])
    /\ UNCHANGED <<pc, handlerCalls, usageCalls, exits, panicMsg>>

\* run(subCmds, checkingIndex+1, args[1:]): the next level's call is entered
descend(subCmds, checkingIndex, args) ==
    /\ frame' = [cmds |-> subCmds, checkingIndex |-> checkingIndex + 1,
                 args |-> Tail(args)]
    /\ levels' = levels + 1
    /\ matched' = Append(matched, args[2])
    /\ UNCHANGED <<pc, handlerCalls, usageCalls, exits, panicMsg>>

\* invoke with a fault: the handler is given args[1:], not args[2:]
invoke_keepsName(do, args) ==
    /\ handlerCalls' = Append(handlerCalls, [do |-> do, args |-> Tail(args)])
    /\ pc' = "returned"
    /\ UNCHANGED <<frame, usageCalls, exits, panicMsg, levels, matched>>

\* do(args[2:]), after which run and Run return
invoke(do, args) ==
    /\ handlerCalls' = Append(handlerCalls, [do |-> do, args |-> Tail(Tail(args))])
    /\ pc' = "returned"
    /\ UNCHANGED <<frame, usageCalls, exits, panicMsg, levels, matched>>

\* Run(cmds): the call run(cmds, 1, os.Args) is entered
Run ==
    /\ pc = "main"
    /\ frame' = [cmds |-> rootCmds, checkingIndex |-> 1, args |-> osArgs]
    /\ levels' = 1
    /\ pc' = "run"
    /\ UNCHANGED <<osArgs, rootCmds, policy, runner, handlerCalls, usageCalls,
                   exits, panicMsg, retErr, resolved, matched>>

\* one call of run, from its first line to its return, its panic, the exit of
\* the process or the entry of the call it makes of itself
run ==
    /\ pc = "run"
    /\ LET cmds == frame.cmds
           checkingIndex == frame.checkingIndex
           args == frame.args
           idx == rangeCmds(cmds, 1, EmptyMap, EmptyMap)
       IN  IF idx.panic # "" THEN panicf(idx.panic)
           ELSE IF Len(args) < 2 THEN usageExit(cmds, checkingIndex, 1)
           ELSE IF args[2] \in helpWords THEN usageExit(cmds, checkingIndex, 0)
           ELSE IF args[2] \in DOMAIN idx.subCmdByName
                THEN descend(idx.subCmdByName[args[2]], checkingIndex, args)
           ELSE IF args[2] \in DOMAIN idx.byName
                THEN invoke(idx.byName[args[2]], args)
           ELSE usageExit(cmds, checkingIndex, 1)
    /\ resolved' = Append(resolved, frame.cmds)
    /\ UNCHANGED <<osArgs, rootCmds, policy, runner, retErr>>

Next == Run \/ run

Spec == Init /\ [][Next]_vars

\* a call chain has no scheduler: a started call always takes its next step
LiveSpec == Init /\ [][Next]_vars /\ WF_vars(Next)

(***************************************************************************)
(* src/unnamed/part_000: the Runner                                        *)
(***************************************************************************)
\* flag.ErrorHandling
ContinueOnError == 0
ExitOnError == 1
PanicOnError == 2

NilErr == [id |-> "nil", text |-> ""]
ErrHelp == [id |-> "ErrHelp", text |-> "subcmd: help requested"]
\* errNoSuchCommand with a fault: the text does not name the argument
errNoSuchCommand_unnamed(arg) == [id |-> "new", text |-> "subcmd: no such command"]
\* errors.New and fmt.Errorf make a new error value at each call
errNoSubCommand == [id |-> "new", text |-> "subcmd: no sub-command provided"]
errNoSuchCommand(arg) == [id |-> "new", text |-> "subcmd: no such command " \o Quote(arg)]

\* a Command of this file has no SubCommands field
RunnerCommands(names) ==
    { [Name |-> nm, Do |-> IF hasDo THEN FuncOf(nm) ELSE NilFunc] :
        nm \in names, hasDo \in BOOLEAN }
RunnerCommandLists(names) ==
    UNION { [1..n -> RunnerCommands(names)] : n \in 0..MaxCommands }

RunnerInit ==
    /\ \E w \in ReservedTokens :
          /\ rootCmds \in RunnerCommandLists(PlainNames \cup {w})
          /\ osArgs \in { <<ProgName>> \o a : a \in ArgLists(PlainNames \cup {w}) }
    /\ policy \in 0..3
    /\ pc = "main"
    /\ frame = NoFrame
    /\ runner = NoRunner
    /\ handlerCalls = <<>>
    /\ usageCalls = <<>>
    /\ exits = <<>>
    /\ panicMsg = ""
    /\ retErr = NoErr
    /\ levels = 0
    /\ resolved = <<>>
    /\ matched = <<>>

\* the loop of New over cmds, from index i on: the panic it raises, or ""
RECURSIVE rangeNames(_, _, _)
rangeNames(cmds, i, names) ==
    IF i > Len(cmds) THEN ""
    ELSE IF cmds[i].Name \in helpWords
    THEN "subcmd: cannot name a command " \o Quote(cmds[i].Name)
    ELSE IF cmds[i].Name \in names
    THEN "subcmd: duplicate command " \o Quote(cmds[i].Name) \o " given to Run"
    ELSE rangeNames(cmds, i + 1, names \cup {cmds[i].Name})

\* New(name, cmds, errorHandling): its panic, or the Runner it returns, whose
\* Usage is the closure func() { defaultUsage(name, cmds) }
New(name, cmds, errorHandling) ==
    [panic |-> rangeNames(cmds, 1, {}),
     r |-> [cmds |-> cmds, errorHandling |-> errorHandling,
            Usage |-> [name |-> name, cmds |-> cmds]]]

\* exitCode with a fault: the test for ErrHelp is lost
exitCode_alwaysTwo(err) == 2

\* the status errorExit gives os.Exit after r.Usage()
exitCode(err) == IF err = ErrHelp THEN 0 ELSE 2

\* r.errorExit(args, err)
errorExit(r, err) ==
    IF r.errorHandling = ContinueOnError
    THEN /\ retErr' = err
         /\ pc' = "returned"
         /\ UNCHANGED <<usageCalls, exits, panicMsg, handlerCalls>>
    ELSE IF r.errorHandling = PanicOnError
    THEN /\ panicMsg' = err.text
         /\ pc' = "panicked"
         /\ UNCHANGED <<usageCalls, exits, retErr, handlerCalls>>
    ELSE IF r.errorHandling = ExitOnError
    THEN /\ usageCalls' = Append(usageCalls, r.Usage)
         /\ exits' = Append(exits, exitCode(err))
         /\ pc' = "exited"
         /\ UNCHANGED <<panicMsg, retErr, handlerCalls>>
    ELSE /\ panicMsg' = "subcmd: bad ErrorHandling value " \o ToString(r.errorHandling)
         /\ pc' = "panicked"
         /\ UNCHANGED <<usageCalls, exits, retErr, handlerCalls>>

\* the first command of cmds named nm, as the loop of Runner.Run finds it
firstNamed(cmds, nm) ==
    LET hits == { i \in 1..Len(cmds) : cmds[i].Name = nm }
    IN  IF hits = {} THEN 0 ELSE CHOOSE i \in hits : \A j \in hits : i <= j

\* r.Run(args)
RunnerRun(r, args) ==
    IF Len(args) < 1 THEN errorExit(r, errNoSubCommand)
    ELSE IF args[1] \in helpWords THEN errorExit(r, ErrHelp)
    ELSE LET i == firstNamed(r.cmds, args[1]) IN
         IF i = 0 THEN errorExit(r, errNoSuchCommand(args[1]))
         ELSE IF r.cmds[i].Do = NilFunc
         THEN \* the call of a nil func value
              /\ panicMsg' = "runtime error: invalid memory address or nil pointer dereference"
              /\ pc' = "panicked"
              /\ UNCHANGED <<usageCalls, exits, retErr, handlerCalls>>
         ELSE /\ handlerCalls' = Append(handlerCalls,
                                        [do |-> r.cmds[i].Do, args |-> Tail(args)])
              /\ retErr' = NilErr
              /\ pc' = "returned"
              /\ UNCHANGED <<usageCalls, exits, panicMsg>>

\* the caller's r := New(name, cmds, errorHandling)
CallNew ==
    /\ pc = "main"
    /\ LET res == New(ProgName, rootCmds, policy) IN
         IF res.panic # ""
         THEN /\ panicMsg' = res.panic
              /\ pc' = "panicked"
              /\ UNCHANGED runner
         ELSE /\ runner' = res.r
              /\ pc' = "constructed"
              /\ UNCHANGED panicMsg
    /\ UNCHANGED <<osArgs, rootCmds, policy, frame, handlerCalls, usageCalls, exits,
                   retErr, levels, resolved, matched>>

\* the caller's r.Run(os.Args[1:])
CallRun ==
    /\ pc = "constructed"
    /\ RunnerRun(runner, Tail(osArgs))
    /\ UNCHANGED <<osArgs, rootCmds, policy, frame, runner, levels, resolved, matched>>

\* the package-level Run(cmds) of this file: New with flag.ExitOnError, r.Usage
\* set to func() { Usage(cmds) }, which prints with os.Args[0], then r.Run
RunExitOnError ==
    /\ pc = "main"
    /\ LET res == New(osArgs[1], rootCmds, ExitOnError)
           r == [res.r EXCEPT !.Usage = [name |-> osArgs[1], cmds |-> rootCmds]]
       IN  IF res.panic # ""
           THEN /\ panicMsg' = res.panic
                /\ pc' = "panicked"
                /\ UNCHANGED <<runner, usageCalls, exits, retErr, handlerCalls>>
           ELSE /\ runner' = r
                /\ RunnerRun(r, Tail(osArgs))
    /\ UNCHANGED <<osArgs, rootCmds, policy, frame, levels, resolved, matched>>

RunnerNext == CallNew \/ CallRun \/ RunExitOnError

RunnerSpec == RunnerInit /\ [][RunnerNext]_vars

(***************************************************************************)
(* What the claims speak of.                                               *)
(***************************************************************************)
Terminal == pc \in {"returned", "exited", "panicked"}
userArgs == Tail(osArgs)
Quiet == usageCalls = <<>> /\ exits = <<>> /\ handlerCalls = <<>>

IsLeaf(c) == c.Do # NilFunc /\ c.SubCommands.isNil
IsGroup(c) == c.Do = NilFunc /\ ~c.SubCommands.isNil
HasReservedName(cmds) == \E i \in 1..Len(cmds) : cmds[i].Name \in ReservedTokens
HasDuplicateName(cmds) ==
    \E i \in 1..Len(cmds) : \E j \in 1..Len(cmds) : i # j /\ cmds[i].Name = cmds[j].Name
HasMalformed(cmds) == \E i \in 1..Len(cmds) : ~IsLeaf(cmds[i]) /\ ~IsGroup(cmds[i])
ValidList(cmds) ==
    ~HasReservedName(cmds) /\ ~HasDuplicateName(cmds) /\ ~HasMalformed(cmds)

RECURSIVE ValidTree(_)
ValidTree(cmds) ==
    /\ ValidList(cmds)
    /\ \A i \in 1..Len(cmds) : ValidTree(cmds[i].SubCommands.elems)

RECURSIVE DuplicateFree(_)
DuplicateFree(cmds) ==
    /\ ~HasDuplicateName(cmds)
    /\ \A i \in 1..Len(cmds) : DuplicateFree(cmds[i].SubCommands.elems)

Named(cmds, nm) == { i \in 1..Len(cmds) : cmds[i].Name = nm }

\* path is a chain of nested group names starting at the list cmds
RECURSIVE IsChain(_, _)
IsChain(cmds, path) ==
    \/ path = <<>>
    \/ \E i \in Named(cmds, path[1]) :
          IsGroup(cmds[i]) /\ IsChain(cmds[i].SubCommands.elems, Tail(path))

\* the sibling list at the end of the chain path
RECURSIVE LevelList(_, _)
LevelList(cmds, path) ==
    IF path = <<>> THEN cmds
    ELSE LevelList(cmds[CHOOSE i \in Named(cmds, path[1]) : IsGroup(cmds[i])]
                       .SubCommands.elems, Tail(path))

\* C1: in a valid tree, arguments g1..gk x r1..rn with g1..gk a chain of
\* groups and x a leaf of the last one end in one call of x's handler with
\* exactly r1..rn, no call of Usage, no exit and no panic.
C1_RecursiveDescent ==
    (Terminal /\ ValidTree(rootCmds)) =>
        \A k \in 0..(Len(userArgs) - 1) :
            LET chain == SubSeq(userArgs, 1, k)
                level == LevelList(rootCmds, chain)
            IN  IsChain(rootCmds, chain) =>
                \A i \in Named(level, userArgs[k + 1]) :
                    IsLeaf(level[i]) =>
                        /\ pc = "returned"
                        /\ handlerCalls =
                             <<[do |-> level[i].Do,
                                args |-> SubSeq(userArgs, k + 2, Len(userArgs))]>>
                        /\ usageCalls = <<>>
                        /\ exits = <<>>
                        /\ panicMsg = ""

C1_Witness ==
    /\ pc = "returned"
    /\ ValidTree(rootCmds)
    /\ matched # <<>>
    /\ Len(handlerCalls) = 1
    /\ handlerCalls[1].do # FuncOf(matched[1])
    /\ handlerCalls[1].args # <<>>

\* C2: every sibling list run goes through that holds two commands of one
\* name makes that call of run panic, before any usage output, exit, descent
\* or handler call.  (The claim also names the fault; the formula asks only
\* for a fault, so a violation is a run that raises none.)
C2_DuplicateNamesFault ==
    \A i \in 1..Len(resolved) :
        HasDuplicateName(resolved[i]) =>
            i = Len(resolved) /\ pc = "panicked" /\ Quiet

\* C3: in a valid tree, a help word as the first argument left at a level
\* reached through group names ends, whatever follows it, in one call of
\* Usage and exit status 0, with no handler called.
C3_HelpShortCircuit ==
    (Terminal /\ ValidTree(rootCmds)) =>
        \A d \in 0..(Len(userArgs) - 1) :
            (IsChain(rootCmds, SubSeq(userArgs, 1, d))
                /\ userArgs[d + 1] \in ReservedTokens) =>
                /\ pc = "exited"
                /\ handlerCalls = <<>>
                /\ Len(usageCalls) = 1
                /\ exits = <<0>>

C3_Witness ==
    /\ pc = "exited"
    /\ exits = <<0>>
    /\ ValidTree(rootCmds)
    /\ matched # <<>>
    /\ Len(userArgs) > Len(matched) + 1

\* C4: in a valid tree, when after d matched group names no argument is left,
\* or the next one is no help word and names no sibling of that level, no
\* handler is called, Usage is called once with that level's list and with
\* the program name followed by the d group names, and the exit status is 1.
C4_NonMatch ==
    (Terminal /\ ValidTree(rootCmds)) =>
        \A d \in 0..Len(userArgs) :
            LET chain == SubSeq(userArgs, 1, d)
                level == LevelList(rootCmds, chain)
            IN  (IsChain(rootCmds, chain)
                    /\ \/ d = Len(userArgs)
                       \/ /\ userArgs[d + 1] \notin ReservedTokens
                          /\ Named(level, userArgs[d + 1]) = {}) =>
                /\ pc = "exited"
                /\ handlerCalls = <<>>
                /\ Len(usageCalls) = 1
                /\ usageCalls[1].cmds = level
                /\ usageCalls[1].parsedArgs = Join(<<ProgName>> \o chain, " ")
                /\ exits = <<1>>

C4_Witness ==
    /\ pc = "exited"
    /\ exits = <<1>>
    /\ ValidTree(rootCmds)
    /\ matched # <<>>
    /\ Len(userArgs) > Len(matched)

\* C5: a tree with an offending sibling list at any depth makes Run fault for
\* every argument vector, with no usage output, exit or handler call.  (Stated
\* for the trees none of whose lists repeats a name, so that a violation owes
\* nothing to the way run looks for duplicates.)
C5_FaultsAtStartup ==
    (Terminal /\ ~ValidTree(rootCmds) /\ DuplicateFree(rootCmds)) =>
        pc = "panicked" /\ Quiet

\* C8: every sibling list run goes through that holds a command named help,
\* -h, -help or --help, at any position, makes that call of run panic before
\* any usage output, exit or handler call; and the reserved-name fault is
\* raised for no other name.
C8_ReservedNames ==
    /\ \A i \in 1..Len(resolved) :
          HasReservedName(resolved[i]) =>
              i = Len(resolved) /\ pc = "panicked" /\ Quiet
    /\ pc = "panicked" =>
          \A j \in 1..Len(resolved[Len(resolved)]) :
              LET nm == resolved[Len(resolved)][j].Name
              IN  panicMsg = "subcmd: cannot name a command \"" \o nm \o "\""
                      => nm \in ReservedTokens

C8_Witness ==
    /\ pc = "panicked"
    /\ LET last == resolved[Len(resolved)]
       IN  /\ Len(last) = 2
           /\ last[1].Name = "Help"
           /\ IsLeaf(last[1])
           /\ last[2].Name \in ReservedTokens

\* C9: every sibling list run goes through that holds a command with both Do
\* and SubCommands set, or with neither, makes that call of run panic before
\* any usage output, exit or handler call; in a run without fault every
\* command of every such list is a leaf or a group and not both, and a matched
\* name goes to one handler or to one deeper level.
C9_Exclusivity ==
    /\ \A i \in 1..Len(resolved) :
          HasMalformed(resolved[i]) =>
              i = Len(resolved) /\ pc = "panicked" /\ Quiet
    /\ pc # "panicked" =>
          \A i \in 1..Len(resolved) : \A j \in 1..Len(resolved[i]) :
              IsLeaf(resolved[i][j]) # IsGroup(resolved[i][j])
    /\ Len(matched) = levels - (IF levels = 0 THEN 0 ELSE 1)
    /\ Len(handlerCalls) <= 1
    /\ handlerCalls # <<>> => pc = "returned" /\ levels = Len(resolved)

C9_Witness ==
    /\ pc = "panicked"
    /\ matched # <<>>
    /\ ~HasReservedName(resolved[Len(resolved)])
    /\ ~HasDuplicateName(resolved[Len(resolved)])
    /\ \E j \in 1..Len(resolved[Len(resolved)]) :
          LET c == resolved[Len(resolved)][j]
          IN  c.Do # NilFunc /\ ~c.SubCommands.isNil

\* the four ways a run of Run ends
Outcome(n) ==
    CASE n = 1 -> pc = "panicked" /\ panicMsg # "" /\ Quiet
      [] n = 2 -> /\ pc = "exited" /\ exits = <<0>> /\ Len(usageCalls) = 1
                  /\ handlerCalls = <<>> /\ panicMsg = ""
      [] n = 3 -> /\ pc = "exited" /\ exits = <<1>> /\ Len(usageCalls) = 1
                  /\ handlerCalls = <<>> /\ panicMsg = ""
      [] n = 4 -> /\ pc = "returned" /\ Len(handlerCalls) = 1
                  /\ usageCalls = <<>> /\ exits = <<>> /\ panicMsg = ""

\* C10: every run of Run ends; it enters at most len(args)+1 calls of run,
\* each descent taking one argument; and it ends in exactly one of a fault,
\* the help usage action, the non-match usage action or one handler call,
\* having produced none of them before.
C10_Termination ==
    /\ <>Terminal
    /\ [](levels <= Len(userArgs) + 1)
    /\ [](pc = "run" => Len(frame.args) + levels = Len(osArgs) + 1)
    /\ [](Terminal => Cardinality({ n \in 1..4 : Outcome(n) }) = 1)
    /\ [](~Terminal => Quiet /\ panicMsg = "")

C10_Witness ==
    /\ Terminal
    /\ levels >= 3
    /\ levels = Len(userArgs) + 1

(***************************************************************************)
(* The Runner's claims.                                                    *)
(***************************************************************************)
RunnerRan == Terminal /\ runner # NoRunner
NoArgument == userArgs = <<>>
HelpAsked == userArgs # <<>> /\ userArgs[1] \in ReservedTokens
UnknownCommand ==
    /\ userArgs # <<>>
    /\ userArgs[1] \notin ReservedTokens
    /\ Named(runner.cmds, userArgs[1]) = {}

\* C6 as claimed: under flag.ExitOnError, no argument or an unknown first
\* argument ends in one call of the bound Usage and exit status 1, a help
\* word in one call of Usage and exit status 0, no handler being called.
C6_ExitStatusOne ==
    (RunnerRan /\ runner.errorHandling = ExitOnError) =>
        /\ (NoArgument \/ UnknownCommand) =>
              usageCalls = <<runner.Usage>> /\ exits = <<1>> /\ handlerCalls = <<>>
        /\ HelpAsked =>
              usageCalls = <<runner.Usage>> /\ exits = <<0>> /\ handlerCalls = <<>>

\* C6 as amended: the same with exit status 2 for no argument and for an
\* unknown first argument.
C6_ExitStatusTwo ==
    (RunnerRan /\ runner.errorHandling = ExitOnError) =>
        /\ (NoArgument \/ UnknownCommand) =>
              usageCalls = <<runner.Usage>> /\ exits = <<2>> /\ handlerCalls = <<>>
        /\ HelpAsked =>
              usageCalls = <<runner.Usage>> /\ exits = <<0>> /\ handlerCalls = <<>>

C6_Witness ==
    /\ RunnerRan
    /\ runner.cmds # <<>>
    /\ runner.errorHandling = ExitOnError
    /\ UnknownCommand
    /\ exits = <<2>>

====
